---- MODULE Spec2Model ----
(***************************************************************************)
(* Rickipedia (src/app.py): a Streamlit browser over the Rick & Morty REST *)
(* API.  The module models                                                  *)
(*   - the two API functions api_get and fetch_multiple and the helper      *)
(*     extract_id_from_url, as operators over strings (SpecCall);           *)
(*   - the st.cache_data memoisation that decorates them (SpecCache,        *)
(*     SpecCapacity);                                                       *)
(*   - the session state, the callbacks and the script run that renders the *)
(*     three tabs (Spec).                                                   *)
(* A Python string is a sequence of tokens: the words below, "/", ",",      *)
(* a newline and the decimal digits.  The empty string is << >>.            *)
(***************************************************************************)
EXTENDS Integers, Sequences, FiniteSets, TLC

VARIABLES
    call,           \* the latest call of an API function: arguments and what it returned
    api_cache,      \* entries of st.cache_data around api_get, oldest first
    fm_cache,       \* entries of st.cache_data around fetch_multiple, oldest first
    session_state,  \* st.session_state: the app's keys and the keyed widgets' values
    tab,            \* the tab the user works in
    pc,             \* the section the running script is about to render, or how the
                    \* latest run ended: "done", or "stopped-" and the section it left
    event,          \* the widget event the running script has still to deliver
    rerun,          \* the st.rerun() that queued a new run: what called it, in which view
    resp,           \* per list view: the answer to the latest request and its page count
    ui,             \* per list view: the pager the latest run rendered
    req,            \* per list view: the parameters of the latest request built
    dirty           \* per list view: a filter changed and no request was built since

vars == <<call, api_cache, fm_cache, session_state, tab, pc, event, rerun, resp, ui,
          req, dirty>>

----------------------------------------------------------------------------
(* Bounds of the model *)

MaxUrls == 3        \* longest list of reference URLs handed to fetch_multiple
MaxLimit == 3       \* largest limit handed to fetch_multiple
MaxPages == 3       \* pages of the unfiltered catalogue of each kind
NumSigs == 2        \* request signatures the callers of the cached functions use
NumFresh == 52      \* distinct signatures of the capacity workload
NumChars == 2       \* character ids a card can open

(* Program constants *)

MaxEntries == 50    \* max_entries of api_get's cache
DefaultLimit == 8   \* default of fetch_multiple's limit
OK == 200           \* the status code both functions test for

----------------------------------------------------------------------------
(* Strings *)

BASE == "https://rickandmortyapi.com/api/"

Digits == {"0", "1", "2", "3", "4", "5", "6", "7", "8", "9"}

Front(s) == SubSeq(s, 1, Len(s) - 1)

Last(s) == s[Len(s)]

DigitTokens == <<"0", "1", "2", "3", "4", "5", "6", "7", "8", "9">>

RECURSIVE Str(_)
\* str(n) of a natural number, as f"{n}" formats it
Str(n) ==
    IF n < 10 THEN <<DigitTokens[n + 1]>>
    ELSE Str(n \div 10) \o <<DigitTokens[(n % 10) + 1]>>

RECURSIVE TrailingDigits(_)
\* length of the longest run of digits that ends the string
TrailingDigits(s) ==
    IF s = << >> \/ Last(s) \notin Digits THEN 0 ELSE 1 + TrailingDigits(Front(s))

RECURSIVE Join(_, _)
\* sep.join(parts)
Join(parts, sep) ==
    IF parts = << >> THEN << >>
    ELSE IF Len(parts) = 1 THEN parts[1]
    ELSE parts[1] \o <<sep>> \o Join(Tail(parts), sep)

\* s[:n] of Python: a negative n counts from the end
SliceTo(s, n) ==
    IF n >= 0 THEN SubSeq(s, 1, IF n < Len(s) THEN n ELSE Len(s))
    ELSE SubSeq(s, 1, IF Len(s) + n > 0 THEN Len(s) + n ELSE 0)

\* [f(x) for x in s]
Map(f(_), s) == [i \in 1..Len(s) |-> f(s[i])]

\* lines 90-96, re.search(r'/(\d+)/?$', u): "/", one or more digits, an optional "/",
\* then the end of the string or the newline that ends it; group 1 is the digits, and
\* the result is "" without a match
extract_id_from_url(u) ==
    LET t == IF u # << >> /\ Last(u) = "\n" THEN Front(u) ELSE u
        b == IF t # << >> /\ Last(t) = "/" THEN Front(t) ELSE t
        n == TrailingDigits(b)
    IN  IF n > 0 /\ Len(b) > n /\ b[Len(b) - n] = "/"
        THEN SubSeq(b, Len(b) - n + 1, Len(b))
        ELSE << >>

----------------------------------------------------------------------------
(* The upstream service, as the functions see it: a request either raises  *)
(* (timeout, connection failure, undecodable body) or yields a status code *)
(* and a JSON body.                                                        *)

Raises == [exc |-> TRUE, status_code |-> 0, json |-> [type |-> "none"]]

Status(code) == [exc |-> FALSE, status_code |-> code, json |-> [type |-> "none"]]

Json(body) == [exc |-> FALSE, status_code |-> OK, json |-> body]

Entity(endpoint, id) == [kind |-> endpoint, id |-> id]

\* answers to GET {endpoint}/{id1,id2,...}: a list, or a bare object for one id
BulkAnswers(endpoint, ids) ==
    {Raises, Status(404), Status(500),
     Json([type |-> "list", items |-> Map(LAMBDA i : Entity(endpoint, i), ids)])}
    \cup (IF Len(ids) = 1
          THEN {Json([type |-> "dict", item |-> Entity(endpoint, ids[1])])}
          ELSE {})

----------------------------------------------------------------------------
(* fetch_multiple *)

NoRequest == [issued |-> FALSE, endpoint |-> "", ids |-> << >>, url |-> << >>]

\* ids = [extract_id_from_url(u) for u in urls if u]
ExtractIds(urls) ==
    Map(extract_id_from_url, SelectSeq(urls, LAMBDA u : u # << >>))

\* line 54 without the slice
IdsNotTruncated(ids, limit) == ids

\* ids_to_fetch = ids[:limit]
IdsToFetch(ids, limit) == SliceTo(ids, limit)

\* the guard of line 51 dropped: a request is built for an empty id list too
BulkRequestUnguarded(urls, limit) ==
    LET ids == ExtractIds(urls)
        ids_to_fetch == IdsToFetch(ids, limit)
        endpoint == IF urls # << >> /\ \E i \in 1..Len(urls[1]) : urls[1][i] = "character"
                    THEN "character" ELSE "episode"
    IN  [issued |-> TRUE, endpoint |-> endpoint, ids |-> ids_to_fetch,
         url |-> <<BASE, endpoint, "/">> \o Join(ids_to_fetch, ",")]

\* lines 50-59: the bulk request fetch_multiple builds, if it builds one
BulkRequest(urls, limit) ==
    LET ids == ExtractIds(urls)
        ids_to_fetch == IdsToFetch(ids, limit)
        endpoint == IF \E i \in 1..Len(urls[1]) : urls[1][i] = "character"
                    THEN "character" ELSE "episode"
    IN  IF ids = << >> THEN NoRequest
        ELSE [issued |-> TRUE, endpoint |-> endpoint, ids |-> ids_to_fetch,
              url |-> <<BASE, endpoint, "/">> \o Join(ids_to_fetch, ",")]

\* lines 48-70; r is the upstream's answer to the bulk request
fetch_multiple(urls, limit, r) ==
    LET q == BulkRequest(urls, limit)
    IN  IF ~q.issued
        THEN [raised |-> FALSE, value |-> << >>, request |-> q, notice |-> FALSE]
        ELSE IF r.exc
        THEN [raised |-> FALSE, value |-> << >>, request |-> q, notice |-> TRUE]
        ELSE IF r.status_code = OK
        THEN [raised |-> FALSE,
              value |-> IF r.json.type = "list" THEN r.json.items ELSE <<r.json.item>>,
              request |-> q, notice |-> FALSE]
        ELSE [raised |-> FALSE, value |-> << >>, request |-> q, notice |-> FALSE]

----------------------------------------------------------------------------
(* api_get *)

\* d.get(k, default) of a Python dict
Get(d, k, default) == IF k \in DOMAIN d THEN d[k] ELSE default

EmptyDict == << >>

\* pages of the catalogue that match the filters of a list request: every filter
\* narrows the result set, and enough filters leave nothing
MatchingPages(params) ==
    LET k == Cardinality(DOMAIN params \ {"page"})
    IN  IF MaxPages > k THEN MaxPages - k ELSE 0

Results == [i \in 1..NumChars |-> [id |-> i]]

\* answers to GET {endpoint}?page=..&filters: a page of results with its pagination
\* metadata (or without it), 404 for a page that is out of range, or a failure
ListAnswers(endpoint, params) ==
    {Raises, Status(500)}
    \cup (IF params.page <= MatchingPages(params)
          THEN {Json([info |-> [count |-> 20 * MatchingPages(params),
                                pages |-> MatchingPages(params)],
                      results |-> Results]),
                Json([results |-> Results])}
          ELSE {Status(404)})

EpisodeUrl(n) == <<BASE, "episode", "/">> \o Str(n)

\* answers to GET character/{id}
DetailAnswers(endpoint) ==
    {Raises, Status(404), Status(500),
     Json([name |-> <<"name">>, image |-> <<"image">>, species |-> <<"species">>,
           episode |-> <<EpisodeUrl(1), EpisodeUrl(2)>>])}

\* f"character/{char_id}"
DetailEndpoint(char_id) == <<"character", "/">> \o Str(char_id)

\* lines 38-45; r is the upstream's answer.  requests.get is not guarded: what it
\* raises leaves api_get
api_get(endpoint, params, r) ==
    IF r.exc THEN [raised |-> TRUE, value |-> EmptyDict]
    ELSE IF r.status_code = OK THEN [raised |-> FALSE, value |-> r.json]
    ELSE [raised |-> FALSE, value |-> [error |-> r.status_code]]

----------------------------------------------------------------------------
(* SpecCall: one call of an API function on drawn arguments *)

Malformed == <<BASE, "episode", "/">>

Urls ==
    {<< >>, EpisodeUrl(1), EpisodeUrl(28), Malformed,
     <<BASE, "character", "/", "1">>, <<BASE, "character", "/", "2", "/">>,
     <<BASE, "location", "/", "3">>}

UrlLists == UNION {[1..n -> Urls] : n \in 0..MaxUrls}

Limits == -1..MaxLimit

Endpoints == {<<"character">>, <<"episode">>, <<"location">>}

FilterVals == {<< >>, <<"rick">>}

NoCall ==
    [fn |-> "none", endpoint |-> << >>, params |-> EmptyDict, urls |-> << >>, limit |-> 0,
     done |-> FALSE, hit |-> FALSE, failed |-> FALSE, ret |-> EmptyDict]

FetchCall(urls, limit) ==
    [NoCall EXCEPT !.fn = "fetch_multiple", !.urls = urls, !.limit = limit]

ApiCall(endpoint, params) ==
    [NoCall EXCEPT !.fn = "api_get", !.endpoint = endpoint, !.params = params]

ListParams ==
    {[page |-> p] : p \in 1..MaxPages + 1}
    \cup {[page |-> p, name |-> n] : p \in 1..MaxPages + 1, n \in FilterVals \ {<< >>}}

\* an upstream answer that is a failure: a transport failure or a status other than 200
Failure(r) == r.exc \/ r.status_code # OK

NoEvent == <<"none", "none">>

\* no session: the API functions are called on their own
SessionIdle ==
    /\ session_state = EmptyDict /\ tab = "none" /\ pc = "done" /\ event = NoEvent
    /\ rerun = NoEvent /\ resp = EmptyDict /\ ui = EmptyDict /\ req = EmptyDict
    /\ dirty = EmptyDict

InitCall ==
    /\ call \in {FetchCall(urls, limit) : urls \in UrlLists, limit \in Limits}
                \cup {ApiCall(e, p) : e \in Endpoints, p \in ListParams}
                \cup {ApiCall(DetailEndpoint(i), EmptyDict) : i \in 1..NumChars}
    /\ api_cache = << >> /\ fm_cache = << >>
    /\ SessionIdle

UiVars == <<session_state, tab, pc, event, rerun, resp, ui, req, dirty>>

ApiAnswers(endpoint, params) ==
    IF endpoint \in Endpoints THEN ListAnswers(endpoint, params)
    ELSE DetailAnswers(endpoint)

CallFetchMultiple ==
    /\ call.fn = "fetch_multiple" /\ ~call.done
    /\ \E r \in LET q == BulkRequest(call.urls, call.limit)
                IN  BulkAnswers(q.endpoint, q.ids) :
          call' = [call EXCEPT !.done = TRUE,
                               !.failed = BulkRequest(call.urls, call.limit).issued
                                          /\ Failure(r),
                               !.ret = fetch_multiple(call.urls, call.limit, r)]
    /\ UNCHANGED <<api_cache, fm_cache>> /\ UNCHANGED UiVars

CallApiGet ==
    /\ call.fn = "api_get" /\ ~call.done
    /\ \E r \in ApiAnswers(call.endpoint, call.params) :
          call' = [call EXCEPT !.done = TRUE, !.failed = Failure(r),
                               !.ret = api_get(call.endpoint, call.params, r)]
    /\ UNCHANGED <<api_cache, fm_cache>> /\ UNCHANGED UiVars

NextCall == CallFetchMultiple \/ CallApiGet

SpecCall == InitCall /\ [][NextCall]_vars

----------------------------------------------------------------------------
(* st.cache_data: the memoisation of lines 37 and 47.  An entry is kept under *)
(* the call's arguments; every entry lives for the same ttl, so entries       *)
(* expire oldest first; a cache with max_entries drops its oldest entry when  *)
(* a new one would exceed it.  A call that raises stores nothing.             *)

\* @st.cache_data(ttl=300, ..., max_entries=50)
ApiCacheConfig == [bounded |-> TRUE, max_entries |-> MaxEntries]

\* @st.cache_data(ttl=300, show_spinner=False): max_entries is left at None
FmCacheConfig == [bounded |-> FALSE, max_entries |-> MaxEntries]

Cached(cache, sig) == \E i \in 1..Len(cache) : cache[i].sig = sig

Lookup(cache, sig) == cache[CHOOSE i \in 1..Len(cache) : cache[i].sig = sig]

Put(cache, entry, config) ==
    IF config.bounded /\ Len(cache) >= config.max_entries
    THEN Tail(cache) \o <<entry>>
    ELSE cache \o <<entry>>

\* the cached api_get(endpoint, params); r is the upstream's answer on a miss
CachedApiGet(endpoint, params, r) ==
    LET sig == <<endpoint, params>>
        ret == api_get(endpoint, params, r)
    IN  /\ IF Cached(api_cache, sig)
           THEN /\ call' = [ApiCall(endpoint, params) EXCEPT
                               !.done = TRUE, !.hit = TRUE,
                               !.ret = [raised |-> FALSE,
                                        value |-> Lookup(api_cache, sig).val]]
                /\ UNCHANGED api_cache
           ELSE /\ call' = [ApiCall(endpoint, params) EXCEPT
                               !.done = TRUE, !.failed = Failure(r), !.ret = ret]
                /\ api_cache' =
                      IF ret.raised THEN api_cache
                      ELSE Put(api_cache,
                               [sig |-> sig, val |-> ret.value, failed |-> Failure(r)],
                               ApiCacheConfig)
        /\ UNCHANGED fm_cache /\ UNCHANGED UiVars

\* the cached fetch_multiple(urls, limit); r is the upstream's answer on a miss
CachedFetchMultiple(urls, limit, r) ==
    LET sig == <<urls, limit>>
        ret == fetch_multiple(urls, limit, r)
        failed == ret.request.issued /\ Failure(r)
    IN  /\ IF Cached(fm_cache, sig)
           THEN /\ call' = [FetchCall(urls, limit) EXCEPT
                               !.done = TRUE, !.hit = TRUE,
                               !.ret = [raised |-> FALSE,
                                        value |-> Lookup(fm_cache, sig).val,
                                        request |-> NoRequest, notice |-> FALSE]]
                /\ UNCHANGED fm_cache
           ELSE /\ call' = [FetchCall(urls, limit) EXCEPT
                               !.done = TRUE, !.failed = failed, !.ret = ret]
                /\ fm_cache' =
                      IF ret.raised THEN fm_cache
                      ELSE Put(fm_cache,
                               [sig |-> sig, val |-> ret.value, failed |-> failed],
                               FmCacheConfig)
        /\ UNCHANGED api_cache /\ UNCHANGED UiVars

\* the ttl of the oldest entry of a cache elapses
ExpireApi ==
    /\ api_cache # << >>
    /\ api_cache' = Tail(api_cache)
    /\ UNCHANGED <<call, fm_cache>> /\ UNCHANGED UiVars

ExpireFm ==
    /\ fm_cache # << >>
    /\ fm_cache' = Tail(fm_cache)
    /\ UNCHANGED <<call, api_cache>> /\ UNCHANGED UiVars

(* SpecCache: callers repeat a few signatures against a failing upstream *)

InitCache ==
    /\ call = NoCall /\ api_cache = << >> /\ fm_cache = << >>
    /\ SessionIdle

RequestApi ==
    \E p \in 1..NumSigs :
        \E r \in ListAnswers(<<"character">>, [page |-> p]) :
            CachedApiGet(<<"character">>, [page |-> p], r)

RequestFetch ==
    \E k \in 1..NumSigs :
        \E r \in BulkAnswers("episode", <<Str(k)>>) :
            CachedFetchMultiple(<<EpisodeUrl(k)>>, DefaultLimit, r)

NextCache == RequestApi \/ RequestFetch \/ ExpireApi \/ ExpireFm

SpecCache == InitCache /\ [][NextCache]_vars

(* SpecCapacity: a visitor opens the detail page of one character after      *)
(* another; each page is a new signature for api_get and for fetch_multiple, *)
(* and the upstream answers every request.                                   *)

\* the k-th signature is new when the (k-1)-th is the newest entry
NextFresh(cache, Sig(_)) ==
    {k \in 1..NumFresh :
        IF cache = << >> THEN k = 1
        ELSE k > 1 /\ Last(cache).sig = Sig(k - 1)}

DetailSig(k) == <<DetailEndpoint(k), EmptyDict>>

EpisodesSig(k) == <<<<EpisodeUrl(k)>>, 1>>

VisitDetail ==
    \E k \in NextFresh(api_cache, DetailSig) :
        CachedApiGet(DetailEndpoint(k), EmptyDict,
                     Json([name |-> <<"name">>, image |-> <<"image">>,
                           species |-> <<"species">>, episode |-> <<EpisodeUrl(k)>>]))

VisitEpisodes ==
    \E k \in NextFresh(fm_cache, EpisodesSig) :
        CachedFetchMultiple(<<EpisodeUrl(k)>>, 1,
                            Json([type |-> "dict", item |-> Entity("episode", Str(k))]))

NextCapacity == VisitDetail \/ VisitEpisodes

SpecCapacity == InitCache /\ [][NextCapacity]_vars

\* C4: a failed upstream call stores no entry, so the next call with the same
\* arguments goes upstream again instead of returning the cached failure.
C4_NoNegativeCaching ==
    /\ (call.done /\ ~call.hit /\ call.failed) =>
          /\ call.fn = "api_get" => ~Cached(api_cache, <<call.endpoint, call.params>>)
          /\ call.fn = "fetch_multiple" => ~Cached(fm_cache, <<call.urls, call.limit>>)
    /\ \A i \in 1..Len(api_cache) : ~api_cache[i].failed
    /\ \A i \in 1..Len(fm_cache) : ~fm_cache[i].failed

\* C7: neither cache ever holds more entries than the configured maximum.
C7_CachesBounded ==
    /\ Len(api_cache) <= MaxEntries
    /\ Len(fm_cache) <= MaxEntries

(* Claims about one call *)

FetchDone == call.fn = "fetch_multiple" /\ call.done

NonEmptyUrls(urls) == SelectSeq(urls, LAMBDA u : u # << >>)

Min(a, b) == IF a < b THEN a ELSE b

\* C5: whatever the upstream does (a status other than 200, a timeout or another
\* transport failure), api_get returns a dict with the key "error" and fetch_multiple
\* returns the empty list, and neither raises.
C5_FailuresBecomeValues ==
    (call.done /\ call.failed) =>
        /\ ~call.ret.raised
        /\ call.fn = "api_get" => "error" \in DOMAIN call.ret.value
        /\ call.fn = "fetch_multiple" => call.ret.value = << >>

\* C6: no empty identifier is joined into the bulk request, and a list of malformed
\* URLs alone causes no request.
C6_MalformedExcluded ==
    FetchDone =>
        /\ \A i \in 1..Len(call.ret.request.ids) : call.ret.request.ids[i] # << >>
        /\ (\A i \in 1..Len(call.urls) : extract_id_from_url(call.urls[i]) = << >>)
              => ~call.ret.request.issued

\* C9 as stated: for every limit the bulk request carries at most limit identifiers.
C9_AtMostLimitForEveryLimit ==
    (FetchDone /\ call.ret.request.issued) => Len(call.ret.request.ids) <= call.limit

\* C9, amended: for every limit >= 0 the bulk request carries the identifiers of the
\* first min(limit, n) of the n non-empty URLs, in input order, and so at most limit.
C9_TruncatesToLimit ==
    (FetchDone /\ call.ret.request.issued /\ call.limit >= 0) =>
        LET given == NonEmptyUrls(call.urls)
            sent == call.ret.request.ids
        IN  /\ Len(sent) <= call.limit
            /\ Len(sent) = Min(call.limit, Len(given))
            /\ \A i \in 1..Len(sent) : sent[i] = extract_id_from_url(given[i])
            /\ call.ret.request.url =
                  <<BASE, call.ret.request.endpoint, "/">> \o Join(sent, ",")

C9_Witness ==
    /\ FetchDone /\ call.ret.request.issued
    /\ call.limit >= 1 /\ Len(NonEmptyUrls(call.urls)) > call.limit
    /\ Len(call.ret.request.ids) = call.limit

\* C10: fetch_multiple([], n) returns [] and issues no request, for every n.
C10_EmptyInputNoRequest ==
    (FetchDone /\ call.urls = << >>) =>
        call.ret.value = << >> /\ ~call.ret.request.issued /\ ~call.ret.raised

C10_Witness == FetchDone /\ call.urls = << >> /\ call.limit = MaxLimit

\* the entity kind a reference URL names: BASE, the kind, "/", the identifier
KindOf(u) == u[2]

\* a list of reference URLs of one kind
Homogeneous(urls) ==
    /\ urls # << >>
    /\ \A i \in 1..Len(urls) :
          /\ Len(urls[i]) >= 2 /\ urls[i][1] = BASE
          /\ KindOf(urls[i]) \in {"character", "episode", "location"}
          /\ KindOf(urls[i]) = KindOf(urls[1])

\* C12: for a non-empty list of reference URLs of one kind (character, episode or
\* location), the bulk request goes to the endpoint of that kind, the kind of the
\* first URL.
C12_EndpointFromFirstUrl ==
    (FetchDone /\ Homogeneous(call.urls)) =>
        /\ call.ret.request.issued
        /\ call.ret.request.endpoint = KindOf(call.urls[1])

----------------------------------------------------------------------------
(* The session: st.session_state, the callbacks and the script.  Every user *)
(* interaction starts a run of the script from the top; the run renders the *)
(* Characters tab, the Episodes tab and the Locations tab in this order,    *)
(* and st.rerun() or an exception ends it where it stands.  A run is        *)
(* modelled tab by tab.  Each api_get of a run is given one of the answers  *)
(* the upstream has for the request: an answer st.cache_data replays is one *)
(* of them, so the caches are not tracked here (SpecCache does that).       *)

None == 0

Views == {"char", "ep", "loc"}

PageKey(v) == IF v = "char" THEN "char_page" ELSE IF v = "ep" THEN "ep_page" ELSE "loc_page"

\* key of the "Page" number_input of a view (lines 318, 358)
InputKey(v) == IF v = "ep" THEN "ep-page-input" ELSE "loc-page-input"

\* keys of the filter widgets of a view (lines 258-266, 314-316, 354-356)
FilterKeys(v) ==
    IF v = "char" THEN {"q_name", "q_status", "q_species", "q_gender"}
    ELSE IF v = "ep" THEN {"ep-name", "ep-code"}
    ELSE {"loc-name", "loc-type"}

AllFilterKeys == UNION {FilterKeys(v) : v \in Views}

\* the request parameter a filter widget feeds (lines 271-274, 322-323, 362-363)
ParamOf(key) ==
    CASE key \in {"q_name", "ep-name", "loc-name"} -> "name"
      [] key = "q_status" -> "status"
      [] key = "q_species" -> "species"
      [] key = "q_gender" -> "gender"
      [] key = "ep-code" -> "episode"
      [] key = "loc-type" -> "type"

\* something a user enters into a filter widget
Entered(key) ==
    CASE key = "q_name" -> <<"rick">>
      [] key = "q_status" -> <<"alive">>
      [] key = "q_species" -> <<"human">>
      [] key = "q_gender" -> <<"male">>
      [] key = "ep-name" -> <<"pilot">>
      [] key = "ep-code" -> <<"S01E01">>
      [] key = "loc-name" -> <<"citadel">>
      [] key = "loc-type" -> <<"planet">>

EndpointOf(v) ==
    IF v = "char" THEN <<"character">> ELSE IF v = "ep" THEN <<"episode">>
    ELSE <<"location">>

\* lines 15-26, and the widgets at their defaults
InitialSession ==
    [k \in {"page_view", "selected_char_id", "char_page", "ep_page", "loc_page", "theme",
            "ep-page-input", "loc-page-input"} \cup AllFilterKeys |->
        CASE k = "page_view" -> "Characters"
          [] k = "selected_char_id" -> None
          [] k \in {"char_page", "ep_page", "loc_page"} -> 1
          [] k = "theme" -> "dark"
          [] k \in {"ep-page-input", "loc-page-input"} -> None
          [] OTHER -> << >>]

(* Callbacks *)

\* lines 28-30
toggle_theme(ss) ==
    [ss EXCEPT !["theme"] = IF ss["theme"] = "dark" THEN "light" ELSE "dark"]

\* lines 98-101
set_detail_view(ss, char_id) ==
    [ss EXCEPT !["selected_char_id"] = char_id, !["page_view"] = "Character_Detail"]

\* lines 103-106 with a pager reset added
set_list_view_resetting_page(ss) ==
    [ss EXCEPT !["selected_char_id"] = None, !["page_view"] = "Characters",
               !["char_page"] = 1]

\* lines 103-106
set_list_view(ss) ==
    [ss EXCEPT !["selected_char_id"] = None, !["page_view"] = "Characters"]

\* lines 108-110
reset_char_page(ss) == [ss EXCEPT !["char_page"] = 1]

(* Rendering *)

NoPager == [pager |-> FALSE, cards |-> FALSE, detail |-> FALSE, page |-> 0, total |-> 0]

NoResp == [kind |-> "none", pages |-> 0]

\* no request built yet; otherwise the parameters of the latest request, with the
\* page cursor and the filter widgets' values they were built from
NoReq == [params |-> [page |-> 0], after_edit |-> FALSE, cursor |-> 0, filters |-> EmptyDict]

Max(a, b) == IF a > b THEN a ELSE b

\* line 122 without the clamp
PrevPageUnclamped(current_page) == current_page - 1

\* line 122: max(1, current_page - 1)
PrevPage(current_page) == Max(1, current_page - 1)

\* line 131 without the clamp
NextPageUnclamped(total_pages, current_page) == current_page + 1

\* line 131: min(total_pages, current_page + 1)
NextPage(total_pages, current_page) == Min(total_pages, current_page + 1)

\* lines 112-132: the pager of view v, and the click it is given, if any
pager_controls(pager_info, v, ss, ev) ==
    LET current_page == ss[PageKey(v)]
        total_pages == Get(pager_info, "pages", current_page)
        shown == [pager |-> TRUE, cards |-> v = "char", detail |-> FALSE,
                  page |-> current_page, total |-> total_pages]
    IN  IF ev = <<"prev", v>>
        THEN [stop |-> "rerun", rerun |-> ev, ui |-> shown,
              ss |-> [ss EXCEPT ![PageKey(v)] = PrevPage(current_page)]]
        ELSE IF ev = <<"next", v>>
        THEN [stop |-> "rerun", rerun |-> ev, ui |-> shown,
              ss |-> [ss EXCEPT ![PageKey(v)] = NextPage(total_pages, current_page)]]
        ELSE [stop |-> "no", rerun |-> NoEvent, ui |-> shown, ss |-> ss]

\* the name of the filter widget of view v that feeds the parameter n
KeyOf(v, n) == CHOOSE k \in FilterKeys(v) : ParamOf(k) = n

\* lines 270-274 without the tests: every filter is sent, an empty one as an empty value
ParamsWithEmptyFilters(v, ss) ==
    [n \in {"page"} \cup {ParamOf(k) : k \in FilterKeys(v)} |->
        IF n = "page" THEN ss[PageKey(v)] ELSE ss[KeyOf(v, n)]]

\* lines 270-274, 321-323, 361-363: the page and every filter that is not empty
Params(v, ss) ==
    LET set == {k \in FilterKeys(v) : ss[k] # << >>}
    IN  [n \in {"page"} \cup {ParamOf(k) : k \in set} |->
            IF n = "page" THEN ss[PageKey(v)] ELSE ss[KeyOf(v, n)]]

\* what a list view does with the data of its request (lines 285-304, 328-344, 368-383)
RenderData(v, ss, data, ev) ==
    LET pager_info == Get(data, "info", EmptyDict)
        res == Get(data, "results", << >>)
        answer == [kind |-> "ok", pages |-> Get(pager_info, "pages", 0)]
    IN  IF res # << >>
        THEN pager_controls(pager_info, v, ss, ev) @@ [resp |-> answer]
        ELSE [stop |-> "no", rerun |-> NoEvent, ui |-> NoPager, ss |-> ss, resp |-> answer]

Crash(ss) ==
    [stop |-> "crash", rerun |-> NoEvent, ui |-> NoPager, ss |-> ss,
     resp |-> [kind |-> "raised", pages |-> 0]]

ShowError(ss) ==
    [stop |-> "no", rerun |-> NoEvent, ui |-> NoPager, ss |-> ss,
     resp |-> [kind |-> "error", pages |-> 0]]

\* line 282 without the test: every error resets and reruns
NeedsResetAlways(ss) == TRUE

\* line 282: if st.session_state.char_page != 1
NeedsReset(ss) == ss["char_page"] # 1

\* lines 277-304; r is the upstream's answer to the request
render_character_list(ss, r, ev) ==
    LET ret == api_get(EndpointOf("char"), Params("char", ss), r)
    IN  IF ret.raised THEN Crash(ss)
        ELSE IF "error" \in DOMAIN ret.value
        THEN IF NeedsReset(ss)
             THEN [ShowError(ss) EXCEPT !.stop = "rerun", !.rerun = <<"reset", "char">>,
                                        !.ss = [ss EXCEPT !["char_page"] = 1]]
             ELSE ShowError(ss)
        ELSE RenderData("char", ss, ret.value, ev)

\* line 318 (358): the number_input returns what the user entered, or its value=
NumberInput(v, ss) ==
    [ss EXCEPT ![PageKey(v)] = IF ss[InputKey(v)] # None THEN ss[InputKey(v)] ELSE @,
               ![InputKey(v)] = None]

\* lines 318-344 and 358-383; s1 is the session after the number_input
RenderPaged(v, s1, r, ev) ==
    LET ret == api_get(EndpointOf(v), Params(v, s1), r)
    IN  IF ret.raised THEN Crash(s1)
        ELSE IF "error" \in DOMAIN ret.value THEN ShowError(s1)
        ELSE RenderData(v, s1, ret.value, ev)

render_episodes(ss, r, ev) == RenderPaged("ep", NumberInput("ep", ss), r, ev)

render_locations(ss, r, ev) == RenderPaged("loc", NumberInput("loc", ss), r, ev)

DetailShown == [NoPager EXCEPT !.detail = TRUE]

\* lines 186-247; r is the upstream's answer to GET character/{id}
render_character_detail_page(ss, r, ev) ==
    LET ret == api_get(DetailEndpoint(ss["selected_char_id"]), EmptyDict, r)
    IN  IF ret.raised THEN [Crash(ss) EXCEPT !.resp = NoResp]
        ELSE IF ev = <<"back", "char">>
        THEN [stop |-> "rerun", rerun |-> ev, ui |-> DetailShown, ss |-> set_list_view(ss),
              resp |-> NoResp]
        ELSE [stop |-> "no", rerun |-> NoEvent, ui |-> DetailShown, ss |-> ss,
              resp |-> NoResp]

\* line 651
DetailMode(ss) == ss["page_view"] = "Character_Detail" /\ ss["selected_char_id"] # None

(* A run of the script *)

Idle == pc \notin Views

Stopped(v) ==
    IF v = "char" THEN "stopped-char" ELSE IF v = "ep" THEN "stopped-ep"
    ELSE "stopped-loc"

Following(v) == IF v = "char" THEN "ep" ELSE IF v = "ep" THEN "loc" ELSE "done"

\* the tabs rendered after the tab of view v
Later(v) == IF v = "char" THEN {"ep", "loc"} ELSE IF v = "ep" THEN {"loc"} ELSE {}

\* a run starts: the callbacks have run and left the session ss; ev is the button
\* that was clicked, if any.  A queued rerun is taken over by the new run.
StartRun(ss, ev) ==
    /\ Idle
    /\ session_state' = ss
    /\ event' = ev
    /\ rerun' = NoEvent
    /\ pc' = "char"
    /\ UNCHANGED <<tab, resp, ui, req>>
    /\ UNCHANGED <<call, api_cache, fm_cache>>

\* the script leaves the tab of view v with the outcome out: it goes on to the next
\* tab, or st.rerun() or an exception ends the run (the tabs not rendered are left as
\* they were shown, and are cleared when the run ends in an exception)
Leave(v, out) ==
    /\ session_state' = out.ss
    /\ rerun' = out.rerun
    /\ event' = IF out.stop = "no" /\ event[2] # v /\ v # "loc" THEN event ELSE NoEvent
    /\ pc' = IF out.stop = "no" THEN Following(v) ELSE Stopped(v)
    /\ ui' = [w \in Views |->
                IF w = v THEN out.ui
                ELSE IF out.stop = "crash" /\ w \in Later(v) THEN NoPager
                ELSE ui[w]]
    /\ UNCHANGED <<tab, call, api_cache, fm_cache>>

\* the request of a list view is built from the session ss, and answered
Requested(v, ss, out) ==
    /\ resp' = [resp EXCEPT ![v] = out.resp]
    /\ req' = [req EXCEPT ![v] = [params |-> Params(v, ss), after_edit |-> dirty[v],
                                  cursor |-> ss[PageKey(v)],
                                  filters |-> [k \in FilterKeys(v) |-> ss[k]]]]
    /\ dirty' = [dirty EXCEPT ![v] = FALSE]

\* lines 649-654, list branch
RenderCharacterList ==
    /\ pc = "char" /\ ~DetailMode(session_state)
    /\ \E r \in ListAnswers(EndpointOf("char"), Params("char", session_state)) :
          LET out == render_character_list(session_state, r, event)
          IN  Leave("char", out) /\ Requested("char", session_state, out)

\* lines 649-652, detail branch
RenderCharacterDetail ==
    /\ pc = "char" /\ DetailMode(session_state)
    /\ \E r \in DetailAnswers(DetailEndpoint(session_state["selected_char_id"])) :
          Leave("char", render_character_detail_page(session_state, r, event))
    /\ UNCHANGED <<resp, req, dirty>>

\* lines 657-658
RenderEpisodes ==
    /\ pc = "ep"
    /\ LET s1 == NumberInput("ep", session_state)
       IN  \E r \in ListAnswers(EndpointOf("ep"), Params("ep", s1)) :
              LET out == render_episodes(session_state, r, event)
              IN  Leave("ep", out) /\ Requested("ep", s1, out)

\* lines 661-662
RenderLocations ==
    /\ pc = "loc"
    /\ LET s1 == NumberInput("loc", session_state)
       IN  \E r \in ListAnswers(EndpointOf("loc"), Params("loc", s1)) :
              LET out == render_locations(session_state, r, event)
              IN  Leave("loc", out) /\ Requested("loc", s1, out)

(* What the user does, in the tab they work in *)

\* line 642: the theme button, with its callback
ToggleTheme ==
    /\ StartRun(toggle_theme(session_state), NoEvent)
    /\ UNCHANGED dirty

\* the on_change callback of a filter widget: the four widgets of the Characters tab
\* carry reset_char_page, the widgets of the other tabs carry none
OnChange(key, ss) == IF key \in FilterKeys("char") THEN reset_char_page(ss) ELSE ss

\* the user changes a filter widget of the tab
EditFilter ==
    /\ tab = "char" => ~DetailMode(session_state)
    /\ \E key \in FilterKeys(tab) :
          \E val \in {<< >>, Entered(key)} :
              /\ val # session_state[key]
              /\ StartRun(OnChange(key, [session_state EXCEPT ![key] = val]), NoEvent)
    /\ dirty' = [dirty EXCEPT ![tab] = TRUE]

\* the user enters a page into the number_input of the tab (min_value=1, no maximum)
EnterPage ==
    /\ tab \in {"ep", "loc"}
    /\ \E n \in 1..MaxPages + 1 :
          /\ n # session_state[PageKey(tab)]
          /\ StartRun([session_state EXCEPT ![InputKey(tab)] = n], NoEvent)
    /\ UNCHANGED dirty

\* the user clicks "Prev" where the pager shows it enabled (line 121)
ClickPrev ==
    /\ ui[tab].pager /\ ui[tab].page > 1
    /\ StartRun(session_state, <<"prev", tab>>)
    /\ UNCHANGED dirty

\* the user clicks "Next" where the pager shows it enabled (line 130)
ClickNext ==
    /\ ui[tab].pager /\ ui[tab].page < ui[tab].total
    /\ StartRun(session_state, <<"next", tab>>)
    /\ UNCHANGED dirty

\* the user clicks "View Details" on a card (lines 171-177), with its callback
ViewDetails ==
    /\ tab = "char" /\ ui["char"].cards
    /\ \E i \in 1..Len(Results) :
          StartRun(set_detail_view(session_state, Results[i].id), NoEvent)
    /\ UNCHANGED dirty

\* the user clicks "Back to Characters" (line 192)
ClickBack ==
    /\ tab = "char" /\ ui["char"].detail
    /\ StartRun(session_state, <<"back", "char">>)
    /\ UNCHANGED dirty

\* the run st.rerun() queued starts
Rerun ==
    /\ rerun # NoEvent
    /\ StartRun(session_state, NoEvent)
    /\ UNCHANGED dirty

Init ==
    /\ call = NoCall /\ api_cache = << >> /\ fm_cache = << >>
    /\ session_state = InitialSession
    /\ tab \in Views
    /\ pc = "char"
    /\ event = NoEvent
    /\ rerun = NoEvent
    /\ resp = [v \in Views |-> NoResp]
    /\ ui = [v \in Views |-> NoPager]
    /\ req = [v \in Views |-> NoReq]
    /\ dirty = [v \in Views |-> FALSE]

Next ==
    \/ RenderCharacterList \/ RenderCharacterDetail \/ RenderEpisodes \/ RenderLocations
    \/ ToggleTheme \/ EditFilter \/ EnterPage \/ ClickPrev \/ ClickNext
    \/ ViewDetails \/ ClickBack \/ Rerun

Spec == Init /\ [][Next]_vars

(* Claims about the pagers *)

Page(v) == session_state[PageKey(v)]

\* the page count the latest response of view v reported, or the current page when it
\* reported none
TotalPages(v) == IF resp[v].pages > 0 THEN resp[v].pages ELSE Page(v)

C2_FilterChangeResetsPage ==
    \A v \in Views : req[v].after_edit => req[v].params.page = 1

\* the script has just dealt with the answer to the request of view v
Answered(v) == pc = Following(v) \/ pc = Stopped(v)

\* C3: when the request of a list view asks for a page N > 1 beyond the pages that
\* match, and the upstream answers it with an error, the view's cursor is reset to 1
\* and a rerun is queued.
C3_OutOfRangeResets ==
    \A v \in Views :
        (/\ Answered(v) /\ resp[v].kind = "error"
         /\ req[v].params.page > 1
         /\ req[v].params.page > MatchingPages(req[v].params)) =>
            Page(v) = 1 /\ rerun = <<"reset", v>>

\* C8: a click on Prev leaves page 1 unchanged and moves any other page N to N - 1;
\* a click on Next leaves page totalPages unchanged and moves any other page N to
\* N + 1.  (After the click the pager still shows the page and the total it was
\* rendered with.)
C8_PrevNextStep ==
    \A v \in Views :
        /\ rerun = <<"prev", v>> =>
              Page(v) = IF ui[v].page = 1 THEN 1 ELSE ui[v].page - 1
        /\ rerun = <<"next", v>> =>
              Page(v) = IF ui[v].page = ui[v].total THEN ui[v].page ELSE ui[v].page + 1

C8_Witness ==
    \E v \in Views :
        rerun = <<"next", v>> /\ ui[v].page = ui[v].total /\ ui[v].total = MaxPages

(* Claims about the request parameters *)

\* a request of view v has been built
Built(v) == req[v].cursor > 0

\* C11: the parameters of every list request hold the key "page" with the view's page
\* cursor, hold the key of a filter exactly when the filter's value is not the empty
\* string, then with that value, and hold no other key.
C11_ParamsOmitEmptyFilters ==
    \A v \in Views :
        Built(v) =>
            LET params == req[v].params
            IN  /\ "page" \in DOMAIN params /\ params.page = req[v].cursor
                /\ \A k \in FilterKeys(v) :
                      /\ ParamOf(k) \in DOMAIN params <=> req[v].filters[k] # << >>
                      /\ ParamOf(k) \in DOMAIN params =>
                            params[ParamOf(k)] = req[v].filters[k]
                /\ DOMAIN params \subseteq {"page"} \cup {ParamOf(k) : k \in FilterKeys(v)}

C11_Witness ==
    \E v \in Views :
        /\ Built(v) /\ req[v].cursor = 2
        /\ \E k \in FilterKeys(v) : req[v].filters[k] # << >>
        /\ \E k \in FilterKeys(v) : req[v].filters[k] = << >>

----------------------------------------------------------------------------
(* SpecAuto: what the script does on its own.  A run is under way in some   *)
(* session, with or without a click to deliver; the user does nothing more, *)
(* the upstream answers as it likes, and every st.rerun() starts its run.   *)
(* A run under way is always continued and a queued run is always started,  *)
(* which is the weak fairness of NextAuto.                                  *)

SessionsAuto ==
    {[InitialSession EXCEPT !["char_page"] = p, !["ep_page"] = e, !["q_name"] = n,
                            !["selected_char_id"] = id,
                            !["page_view"] = IF id = None THEN "Characters"
                                             ELSE "Character_Detail"] :
        p \in 1..MaxPages, e \in 1..MaxPages + 1, n \in {<< >>, Entered("q_name")},
        id \in {None} \cup 1..NumChars}

InitAuto ==
    /\ call = NoCall /\ api_cache = << >> /\ fm_cache = << >>
    /\ session_state \in SessionsAuto
    /\ tab = "char"
    /\ pc = "char"
    /\ event \in {NoEvent, <<"prev", "char">>, <<"next", "char">>}
    /\ rerun = NoEvent
    /\ resp = [v \in Views |-> NoResp]
    /\ ui = [v \in Views |-> NoPager]
    /\ req = [v \in Views |-> NoReq]
    /\ dirty = [v \in Views |-> FALSE]

NextAuto ==
    \/ RenderCharacterList \/ RenderCharacterDetail \/ RenderEpisodes \/ RenderLocations
    \/ Rerun

SpecAuto == InitAuto /\ [][NextAuto]_vars /\ WF_vars(NextAuto)

\* the character list has just been given an error for its request
CharListError ==
    /\ pc = "char" /\ pc' # "char" /\ ~DetailMode(session_state)
    /\ resp'["char"].kind = "error"

\* no run is under way and none is queued
AtRest == Idle /\ rerun = NoEvent

\* C13: an error answer to the character list while char_page is not 1 sets char_page
\* to 1 and queues one rerun; an error answer at char_page = 1 changes nothing and
\* queues no rerun; and left to itself the script comes to rest, whatever the upstream
\* answers: there is no endless chain of reruns.
C13_ResetRerunTerminates ==
    /\ [][CharListError =>
             IF session_state["char_page"] # 1
             THEN /\ session_state' = [session_state EXCEPT !["char_page"] = 1]
                  /\ rerun' = <<"reset", "char">>
             ELSE session_state' = session_state /\ rerun' = NoEvent]_vars
    /\ [][(rerun = <<"reset", "char">> /\ pc' = "char") =>
             session_state'["char_page"] = 1]_vars
    /\ <>[]AtRest

C13_Witness ==
    /\ rerun = <<"reset", "char">> /\ pc = Stopped("char")
    /\ resp["char"].kind = "error" /\ req["char"].cursor > 1 /\ Page("char") = 1

----------------------------------------------------------------------------
(* Claims about the master-detail navigation *)

\* the keys of the session that the navigation is not to touch
KeptKeys == {"char_page", "ep_page", "loc_page", "theme"}

\* a step that opens a detail page or goes back to the list
Navigates ==
    \/ session_state'["page_view"] # session_state["page_view"]
    \/ session_state'["selected_char_id"] # session_state["selected_char_id"]

\* C14: a step that opens a character's detail page or goes back to the list changes
\* page_view and selected_char_id only: char_page, ep_page, loc_page and theme keep
\* their values (so they do over any sequence of such steps), and every other key of
\* the session too; and once "Back to Characters" has been handled, page_view is
\* "Characters" and selected_char_id is None.
C14_NavigationKeepsPagers ==
    /\ [][Navigates =>
             /\ \A k \in KeptKeys : session_state'[k] = session_state[k]
             /\ \A k \in DOMAIN session_state \ {"page_view", "selected_char_id"} :
                   session_state'[k] = session_state[k]]_vars
    /\ [](rerun = <<"back", "char">> =>
             /\ session_state["page_view"] = "Characters"
             /\ session_state["selected_char_id"] = None)

C14_Witness ==
    /\ rerun = <<"back", "char">>
    /\ session_state["page_view"] = "Characters" /\ session_state["selected_char_id"] = None
    /\ Page("char") = 2 /\ session_state["theme"] = "light"

====
